---- MODULE Spec2Model ----
(***************************************************************************)
(* Model of microsim's optical configuration                               *)
(* (src/microsim/schema/optical_config/config.py): LightSource and         *)
(* OpticalConfig with its derived properties excitation, emission,         *)
(* illumination, irradiance, absorption_rate, the FPbase constructor        *)
(* from_fpbase and the caller-dependent __hash__ / __eq__.                  *)
(*                                                                         *)
(* An optional value (T | None) is a sequence of length 0 (None) or 1.     *)
(* A Spectrum is a function from the sampled wavelengths (nm) to its       *)
(* intensity there.  Floating point numbers are exact rationals extended   *)
(* with NaN and +-Inf, carrying the powers of the physical constants h and *)
(* c they are multiplied by.                                               *)
(***************************************************************************)
EXTENDS Integers, Sequences, FiniteSets, TLC

VARIABLES config, address, microscopes, call, ret

vars == <<config, address, microscopes, call, ret>>

(***************************************************************************)
(* Bounds of the model.                                                    *)
(***************************************************************************)
MaxFilters == 2

MaxLights == 2

MaxPathFilters == 2

MaxConfigs == 2

(***************************************************************************)
(* Optional values.                                                        *)
(***************************************************************************)
None == <<>>

Some(x) == <<x>>

IsNone(o) == Len(o) = 0

(***************************************************************************)
(* Numbers: n/d * h^hp * c^cp, kept in lowest terms with d >= 0.           *)
(* d = 0 is a non-finite float: n = 0 is NaN, n = 1 is +Inf, n = -1 -Inf.  *)
(***************************************************************************)
Abs(i) == IF i < 0 THEN -i ELSE i

RECURSIVE GCD(_, _)
GCD(a, b) == IF b = 0 THEN a ELSE GCD(b, a % b)

Num(n, d, hp, cp) ==
    IF d = 0
    THEN [n |-> IF n > 0 THEN 1 ELSE IF n < 0 THEN -1 ELSE 0, d |-> 0, hp |-> 0, cp |-> 0]
    ELSE IF n = 0
    THEN [n |-> 0, d |-> 1, hp |-> 0, cp |-> 0]
    ELSE LET g == GCD(Abs(n), Abs(d))
             s == IF d < 0 THEN -1 ELSE 1
         IN  [n |-> s * (n \div g), d |-> s * (d \div g), hp |-> hp, cp |-> cp]

Float(i) == Num(i, 1, 0, 0)

NaN == Num(0, 0, 0, 0)

NumMul(x, y) == Num(x.n * y.n, x.d * y.d, x.hp + y.hp, x.cp + y.cp)

\* IEEE division: x/0 is NaN for x = 0 or NaN, +-Inf otherwise; Inf/Inf is NaN.
NumDiv(x, y) ==
    IF y.d = 0
    THEN (IF x.d = 0 \/ y.n = 0 THEN NaN ELSE Float(0))
    ELSE Num(x.n * y.d, x.d * y.n, x.hp - y.hp, x.cp - y.cp)

\* Addition of numbers of the same physical dimension.
NumAdd(x, y) ==
    IF x.d = 0 \/ y.d = 0
    THEN (IF x.d = 0 /\ y.d = 0 /\ x.n # y.n THEN NaN
          ELSE IF x.d = 0 THEN x ELSE y)
    ELSE IF x.n = 0 THEN y
    ELSE IF y.n = 0 THEN x
    ELSE Num(x.n * y.d + y.n * x.d, x.d * y.d, x.hp, x.cp)

\* scipy.constants.h and scipy.constants.c
h == Num(1, 1, 1, 0)

c == Num(1, 1, 0, 1)

(***************************************************************************)
(* Spectrum (microsim.schema.spectrum).                                    *)
(***************************************************************************)
Wavelengths == {500, 600}

RECURSIVE SetToSeq(_)
SetToSeq(S) ==
    IF S = {} THEN <<>>
    ELSE LET m == CHOOSE x \in S : \A y \in S : x <= y
         IN  <<m>> \o SetToSeq(S \ {m})

\* the wavelength coordinate "w", ascending
WAxis == SetToSeq(Wavelengths)

SpectrumMul(a, b) == [w \in Wavelengths |-> a[w] * b[w]]

SpectrumInverted(s) == [w \in Wavelengths |-> 1 - s[w]]

\* Spectrum.as_xarray(): a DataArray over the coordinate w
as_xarray(s) ==
    [name |-> "", long_name |-> "", units |-> "",
     data |-> [w \in Wavelengths |-> Float(s[w])]]

RECURSIVE SumOver(_, _)
SumOver(data, ws) ==
    IF ws = <<>> THEN Float(0)
    ELSE NumAdd(data[Head(ws)], SumOver(data, Tail(ws)))

\* DataArray.sum()
DataSum(da) == SumOver(da.data, WAxis)

(***************************************************************************)
(* Filter (microsim.schema.optical_config.filter).  oid is the object's    *)
(* identity: the position in OpticalConfig.filters for a filter of the     *)
(* configuration, 0 for an object created during a call.                   *)
(***************************************************************************)
Placements == {"EX_PATH", "EM_PATH", "BS", "BS_INV", "ALL"}

inverted(f) ==
    [f EXCEPT !.spectrum = SpectrumInverted(f.spectrum), !.oid = 0]

SpectrumFilter(name, transmission) ==
    [name |-> name, placement |-> "ALL", spectrum |-> transmission, oid |-> 0]

(***************************************************************************)
(* OpticalConfig._merge                                                    *)
(***************************************************************************)
RECURSIVE MergeLoopLastWins(_, _)
MergeLoopLastWins(effective_spectrum, rest) ==
    IF rest = <<>> THEN effective_spectrum
    ELSE MergeLoopLastWins(Head(rest).spectrum, Tail(rest))

RECURSIVE MergeLoop(_, _)
MergeLoop(effective_spectrum, rest) ==
    IF rest = <<>> THEN effective_spectrum
    ELSE MergeLoop(SpectrumMul(effective_spectrum, Head(rest).spectrum), Tail(rest))

MergeNoLoop(self, filters, spectrum) ==
    IF filters = <<>> THEN None
    ELSE IF Len(filters) = 1 THEN Some(filters[1])
    ELSE Some(SpectrumFilter("Effective " \o spectrum \o " for " \o self.name,
                             Head(filters).spectrum))

MergeWrapsSingle(self, filters, spectrum) ==
    IF filters = <<>> THEN None
    ELSE Some(SpectrumFilter("Effective " \o spectrum \o " for " \o self.name,
                             MergeLoop(Head(filters).spectrum, Tail(filters))))

_merge(self, filters, spectrum) ==
    IF filters = <<>> THEN None
    ELSE IF Len(filters) = 1 THEN Some(filters[1])
    ELSE Some(SpectrumFilter("Effective " \o spectrum \o " for " \o self.name,
                             MergeLoop(Head(filters).spectrum, Tail(filters))))

(***************************************************************************)
(* OpticalConfig.excitation and OpticalConfig.emission                     *)
(***************************************************************************)
RECURSIVE ExcitationFiltersNoInvert(_)
ExcitationFiltersNoInvert(fs) ==
    IF fs = <<>> THEN <<>>
    ELSE LET f == Head(fs)
         IN  (IF f.placement \in {"EX_PATH", "BS_INV", "ALL"} THEN <<f>> ELSE <<>>)
             \o (IF f.placement = "BS" THEN <<f>> ELSE <<>>)
             \o ExcitationFiltersNoInvert(Tail(fs))

RECURSIVE ExcitationFilters(_)
ExcitationFilters(fs) ==
    IF fs = <<>> THEN <<>>
    ELSE LET f == Head(fs)
         IN  (IF f.placement \in {"EX_PATH", "BS_INV", "ALL"} THEN <<f>> ELSE <<>>)
             \o (IF f.placement = "BS" THEN <<inverted(f)>> ELSE <<>>)
             \o ExcitationFilters(Tail(fs))

excitation(self) == _merge(self, ExcitationFilters(self.filters), "excitation")

RECURSIVE EmissionFilters(_)
EmissionFilters(fs) ==
    IF fs = <<>> THEN <<>>
    ELSE LET f == Head(fs)
         IN  (IF f.placement \in {"EM_PATH", "BS", "ALL"} THEN <<f>> ELSE <<>>)
             \o (IF f.placement = "BS_INV" THEN <<inverted(f)>> ELSE <<>>)
             \o EmissionFilters(Tail(fs))

emission(self) == _merge(self, EmissionFilters(self.filters), "emission")

(***************************************************************************)
(* Outcome of a call: a returned value or a raised exception.              *)
(***************************************************************************)
Return(v) == [ok |-> TRUE, error |-> "", message |-> <<>>, value |-> <<v>>]

Raise(error, message) == [ok |-> FALSE, error |-> error, message |-> message, value |-> <<>>]

NoResult == [ok |-> TRUE, error |-> "", message |-> <<>>, value |-> <<>>]

\* truth value of an optional model object (`if exc:`): None is false, a
\* model instance is true
Truthy(o) == ~IsNone(o)

(***************************************************************************)
(* OpticalConfig.illumination                                              *)
(***************************************************************************)
RECURSIVE LightLoop(_, _)
LightLoop(illum_spect, rest) ==
    IF rest = <<>> THEN illum_spect
    ELSE LightLoop(SpectrumMul(illum_spect, Head(rest).spectrum), Tail(rest))

IlluminationFirstLightOnly(self) ==
    LET exc == excitation(self)
    IN  IF self.lights # <<>>
        THEN LET illum_spect == Head(self.lights).spectrum
             IN  IF Truthy(exc)
                 THEN Some(SpectrumMul(illum_spect, exc[1].spectrum))
                 ELSE Some(illum_spect)
        ELSE IF Truthy(exc) THEN Some(exc[1].spectrum) ELSE None

IlluminationDefaultsToOnes(self) ==
    LET exc == excitation(self)
    IN  IF self.lights # <<>>
        THEN LET illum_spect == LightLoop(Head(self.lights).spectrum, Tail(self.lights))
             IN  IF Truthy(exc)
                 THEN Some(SpectrumMul(illum_spect, exc[1].spectrum))
                 ELSE Some(illum_spect)
        ELSE IF Truthy(exc) THEN Some(exc[1].spectrum)
             ELSE Some([w \in Wavelengths |-> 1])

illumination(self) ==
    LET exc == excitation(self)
    IN  IF self.lights # <<>>
        THEN LET illum_spect == LightLoop(Head(self.lights).spectrum, Tail(self.lights))
             IN  IF Truthy(exc)
                 THEN Some(SpectrumMul(illum_spect, exc[1].spectrum))
                 ELSE Some(illum_spect)
        ELSE IF Truthy(exc) THEN Some(exc[1].spectrum) ELSE None

(***************************************************************************)
(* OpticalConfig.irradiance                                                *)
(***************************************************************************)
NoIlluminationMessage == <<"This Optical Config has no illumination spectrum.">>

IrradianceScaledToPower(self) ==
    LET illum == illumination(self)
    IN  IF IsNone(illum)
        THEN Raise("ValueError", NoIlluminationMessage)
        ELSE LET irrad == as_xarray(illum[1])
                 total == DataSum(irrad)
                 scale == IF IsNone(self.power) THEN Float(1) ELSE Float(self.power[1])
             IN  Return([name |-> "irradiance", long_name |-> "Irradiance",
                         units |-> "W/cm^2",
                         data |-> [w \in Wavelengths |->
                                      NumMul(NumDiv(irrad.data[w], total), scale)]])

irradiance(self) ==
    LET illum == illumination(self)
    IN  IF IsNone(illum)
        THEN Raise("ValueError", NoIlluminationMessage)
        ELSE LET irrad == as_xarray(illum[1])
                 total == DataSum(irrad)
             IN  Return([name |-> "irradiance", long_name |-> "Irradiance",
                         units |-> "W/cm^2",
                         data |-> [w \in Wavelengths |-> NumDiv(irrad.data[w], total)]])

(***************************************************************************)
(* OpticalConfig.absorption_rate                                           *)
(***************************************************************************)
\* the float literal 1e-9
Nano == Num(1, 1000000000, 0, 0)

AbsorptionRateTimesEnergy(self, fluorophore) ==
    LET r == irradiance(self)
    IN  IF ~r.ok THEN r
        ELSE LET irrad == r.value[1]
                 cross_section == fluorophore.absorption_cross_section
                 watts_absorbed == [w \in Wavelengths |->
                                       NumMul(irrad.data[w], cross_section.data[w])]
                 wavelength_meters == [w \in Wavelengths |-> NumMul(Float(w), Nano)]
                 joules_per_photon == [w \in Wavelengths |->
                                          NumDiv(NumMul(h, c), wavelength_meters[w])]
             IN  Return([name |-> "absorption_rate", long_name |-> "Absorption rate",
                         units |-> "photons/s/fluorophore",
                         data |-> [w \in Wavelengths |->
                                      NumMul(watts_absorbed[w], joules_per_photon[w])]])

absorption_rate(self, fluorophore) ==
    LET r == irradiance(self)
    IN  IF ~r.ok THEN r
        ELSE LET irrad == r.value[1]
                 cross_section == fluorophore.absorption_cross_section
                 watts_absorbed == [w \in Wavelengths |->
                                       NumMul(irrad.data[w], cross_section.data[w])]
                 wavelength_meters == [w \in Wavelengths |-> NumMul(Float(w), Nano)]
                 joules_per_photon == [w \in Wavelengths |->
                                          NumDiv(NumMul(h, c), wavelength_meters[w])]
             IN  Return([name |-> "absorption_rate", long_name |-> "Absorption rate",
                         units |-> "photons/s/fluorophore",
                         data |-> [w \in Wavelengths |->
                                      NumDiv(watts_absorbed[w], joules_per_photon[w])]])

(***************************************************************************)
(* LightSource                                                             *)
(***************************************************************************)
LightSource(name, spectrum, power) ==
    [name |-> name, spectrum |-> spectrum, power |-> power]

\* LightSource.laser: a spectrum with the single bin `wavelength`
laser(wavelength, power) ==
    LightSource(ToString(wavelength) \o "nm Laser",
                [w \in Wavelengths |-> IF w = wavelength THEN 1 ELSE 0],
                power)

(***************************************************************************)
(* The inputs the model draws from.                                        *)
(***************************************************************************)
Spec2(a, b) == [w \in Wavelengths |-> IF w = 500 THEN a ELSE b]

FilterSpectra == {Spec2(1, 0), Spec2(0, 1), Spec2(1, 1)}

FilterChoices == [placement : Placements, spectrum : FilterSpectra]

PathFilterChoices == [placement : Placements, spectrum : {Spec2(1, 0), Spec2(1, 1)}]

Filter(i, ch) ==
    [name |-> "f" \o ToString(i), placement |-> ch.placement,
     spectrum |-> ch.spectrum, oid |-> i]

FilterLists(choices, max) ==
    UNION {{[i \in 1..n |-> Filter(i, chs[i])] : chs \in [1..n -> choices]} : n \in 0..max}

LightChoices ==
    {laser(500, None),
     LightSource("lamp", Spec2(2, 3), Some(10))}

LightLists(max) == UNION {[1..n -> LightChoices] : n \in 0..max}

\* name and power of the configurations
Headers == {[name |-> "FITC", power |-> None], [name |-> "Cy5", power |-> Some(3)]}

OpticalConfig(name, filters, lights, power) ==
    [name |-> name, filters |-> filters, lights |-> lights, power |-> power]

Fluorophores ==
    {[name |-> "EGFP",
      absorption_cross_section |->
          [name |-> "", long_name |-> "", units |-> "cm^2",
           data |-> [w \in Wavelengths |-> Float(Spec2(3, 1)[w])]]],
     [name |-> "mCherry",
      absorption_cross_section |->
          [name |-> "", long_name |-> "", units |-> "cm^2",
           data |-> [w \in Wavelengths |-> Float(Spec2(0, 2)[w])]]]}

\* the configuration with its filters in the order p (a permutation of the indices)
Reordered(self, p) ==
    [self EXCEPT !.filters = [i \in 1..Len(self.filters) |-> self.filters[p[i]]]]

Perms(n) == {p \in [1..n -> 1..n] : \A i, j \in 1..n : p[i] = p[j] => i = j}

NoMicroscopes == <<>>

\* hash(str) of the names in use
StrHash(name) ==
    CASE name = "FITC" -> 7001
      [] name = "Cy5" -> 7002
      [] OTHER -> 7003

\* id(obj): the addresses an object may be allocated at; an address may
\* happen to be the hash of a string
Addresses == {140001, 140002, StrHash("FITC")}

(***************************************************************************)
(* The optical path: a configuration is built, then its derived            *)
(* properties are read.                                                    *)
(***************************************************************************)
Init ==
    /\ \E hd \in Headers, fs \in FilterLists(FilterChoices, MaxFilters) :
           config = OpticalConfig(hd.name, fs, <<>>, hd.power)
    /\ address = CHOOSE a \in Addresses : TRUE
    /\ microscopes = NoMicroscopes
    /\ call = [op |-> "init", arg |-> <<>>]
    /\ ret = NoResult

InitIllum ==
    /\ \E hd \in Headers, fs \in FilterLists(PathFilterChoices, MaxPathFilters), ls \in LightLists(MaxLights) :
           config = OpticalConfig(hd.name, fs, ls, hd.power)
    /\ address = CHOOSE a \in Addresses : TRUE
    /\ microscopes = NoMicroscopes
    /\ call = [op |-> "init", arg |-> <<>>]
    /\ ret = NoResult

Excitation ==
    /\ call' = [op |-> "excitation", arg |-> <<>>]
    /\ ret' = Return(excitation(config))
    /\ UNCHANGED <<config, address, microscopes>>

Emission ==
    /\ call' = [op |-> "emission", arg |-> <<>>]
    /\ ret' = Return(emission(config))
    /\ UNCHANGED <<config, address, microscopes>>

\* excitation of a configuration holding the same filters in another order
ExcitationReordered ==
    \E p \in Perms(Len(config.filters)) :
        /\ call' = [op |-> "excitation_reordered", arg |-> <<Reordered(config, p)>>]
        /\ ret' = Return(excitation(Reordered(config, p)))
        /\ UNCHANGED <<config, address, microscopes>>

EmissionReordered ==
    \E p \in Perms(Len(config.filters)) :
        /\ call' = [op |-> "emission_reordered", arg |-> <<Reordered(config, p)>>]
        /\ ret' = Return(emission(Reordered(config, p)))
        /\ UNCHANGED <<config, address, microscopes>>

Illumination ==
    /\ call' = [op |-> "illumination", arg |-> <<>>]
    /\ ret' = Return(illumination(config))
    /\ UNCHANGED <<config, address, microscopes>>

Irradiance ==
    /\ call' = [op |-> "irradiance", arg |-> <<>>]
    /\ ret' = irradiance(config)
    /\ UNCHANGED <<config, address, microscopes>>

AbsorptionRate ==
    \E fluorophore \in Fluorophores :
        /\ call' = [op |-> "absorption_rate", arg |-> <<fluorophore>>]
        /\ ret' = absorption_rate(config, fluorophore)
        /\ UNCHANGED <<config, address, microscopes>>

Next ==
    \/ Excitation
    \/ Emission
    \/ ExcitationReordered
    \/ EmissionReordered

NextIllum ==
    \/ Illumination
    \/ Irradiance
    \/ AbsorptionRate

Spec == Init /\ [][Next]_vars

SpecIllum == InitIllum /\ [][NextIllum]_vars

(***************************************************************************)
(* Properties of the filter-placement merge.                               *)
(***************************************************************************)
\* the result of the last call, when it returned
Result == ret.value[1]

ExcitationPlacements == {"EX_PATH", "BS_INV", "ALL", "BS"}

EmissionPlacements == {"EM_PATH", "BS", "ALL", "BS_INV"}

\* the contributor a filter gives to a path: itself, or its inverted form
Contributor(f, path) ==
    IF (path = "excitation" /\ f.placement = "BS")
       \/ (path = "emission" /\ f.placement = "BS_INV")
    THEN inverted(f)
    ELSE f

ContributorIndices(self, path) ==
    {i \in 1..Len(self.filters) :
        self.filters[i].placement \in
            (IF path = "excitation" THEN ExcitationPlacements ELSE EmissionPlacements)}

RECURSIVE ProductAt(_, _, _, _)
ProductAt(self, path, S, w) ==
    IF S = {} THEN 1
    ELSE LET i == CHOOSE x \in S : TRUE
         IN  Contributor(self.filters[i], path).spectrum[w]
             * ProductAt(self, path, S \ {i}, w)

MergePolicy(self, path, result) ==
    LET S == ContributorIndices(self, path)
    IN  /\ S = {} => IsNone(result)
        /\ Cardinality(S) = 1 =>
               result = Some(Contributor(self.filters[CHOOSE i \in S : TRUE], path))
        /\ Cardinality(S) >= 2 =>
               /\ ~IsNone(result)
               /\ result[1].name = "Effective " \o path \o " for " \o self.name
               /\ result[1].oid = 0
               /\ \A w \in Wavelengths :
                      result[1].spectrum[w] = ProductAt(self, path, S, w)

\* C1: a configuration holding the single filter f: placement BS gives
\* excitation the spectrum of f.inverted() and emission the spectrum of f;
\* placement BS_INV gives excitation the spectrum of f and emission the
\* spectrum of f.inverted().
C1_BeamsplitterInversion ==
    Len(config.filters) = 1 =>
        LET f == config.filters[1]
        IN  /\ (call.op = "excitation" /\ f.placement = "BS") =>
                   ~IsNone(Result) /\ Result[1].spectrum = inverted(f).spectrum
            /\ (call.op = "emission" /\ f.placement = "BS") =>
                   ~IsNone(Result) /\ Result[1].spectrum = f.spectrum
            /\ (call.op = "excitation" /\ f.placement = "BS_INV") =>
                   ~IsNone(Result) /\ Result[1].spectrum = f.spectrum
            /\ (call.op = "emission" /\ f.placement = "BS_INV") =>
                   ~IsNone(Result) /\ Result[1].spectrum = inverted(f).spectrum

C1_Witness ==
    /\ call.op = "excitation"
    /\ Len(config.filters) = 1
    /\ config.filters[1].placement = "BS"
    /\ config.filters[1].spectrum = Spec2(1, 0)
    /\ Result[1].spectrum = Spec2(0, 1)

\* C2: for excitation and for emission, no contributor gives None, one
\* contributor gives that contributor itself, two or more give a synthetic
\* filter named "Effective {path} for {config.name}" whose spectrum is the
\* pointwise product of the contributors' spectra.
C2_MergeResultPolicy ==
    /\ call.op = "excitation" => MergePolicy(config, "excitation", Result)
    /\ call.op = "emission" => MergePolicy(config, "emission", Result)

C2_Witness ==
    /\ call.op = "excitation"
    /\ Len(config.filters) = 2
    /\ config.filters[1].placement = "BS"
    /\ config.filters[1].spectrum = Spec2(1, 0)
    /\ config.filters[2].placement = "ALL"
    /\ config.filters[2].spectrum = Spec2(1, 1)
    /\ Result[1].name = "Effective excitation for Cy5"
    /\ Result[1].spectrum = Spec2(0, 1)

SpectrallyEqual(a, b) ==
    \/ IsNone(a) /\ IsNone(b)
    \/ /\ ~IsNone(a)
       /\ ~IsNone(b)
       /\ \A w \in Wavelengths : a[1].spectrum[w] = b[1].spectrum[w]

\* C3: the excitation (emission) of a configuration holding the same filters
\* in another order is absent when that of the configuration is, and has the
\* same spectrum otherwise.
C3_MergeOrderIndependence ==
    /\ call.op = "excitation_reordered" => SpectrallyEqual(Result, excitation(config))
    /\ call.op = "emission_reordered" => SpectrallyEqual(Result, emission(config))

C3_Witness ==
    /\ call.op = "excitation_reordered"
    /\ call.arg[1].filters # config.filters
    /\ Cardinality(ContributorIndices(config, "excitation")) = 2
    /\ config.filters[1].spectrum # config.filters[2].spectrum
    /\ ~IsNone(Result)

\* C4 as claimed: a configuration with exactly one EX_PATH filter returns that
\* filter object for excitation, whatever its other filters are.
C4_AsClaimed ==
    call.op = "excitation" =>
        LET S == {i \in 1..Len(config.filters) : config.filters[i].placement = "EX_PATH"}
        IN  Cardinality(S) = 1 => Result = Some(config.filters[CHOOSE i \in S : TRUE])

\* C4: a configuration with exactly one EX_PATH filter, whose other filters
\* are all EM_PATH filters, returns that filter object for excitation.
C4_SingleFilterIdentity ==
    call.op = "excitation" =>
        LET S == {i \in 1..Len(config.filters) : config.filters[i].placement = "EX_PATH"}
        IN  (/\ Cardinality(S) = 1
             /\ \A i \in 1..Len(config.filters) :
                    config.filters[i].placement \in {"EX_PATH", "EM_PATH"})
            => Result = Some(config.filters[CHOOSE i \in S : TRUE])

C4_Witness ==
    /\ call.op = "excitation"
    /\ Len(config.filters) = 2
    /\ config.filters[1].placement = "EM_PATH"
    /\ config.filters[2].placement = "EX_PATH"
    /\ Result = Some(config.filters[2])
    /\ Result[1].oid = 2

(***************************************************************************)
(* Properties of illumination, irradiance and absorption rate.             *)
(***************************************************************************)
RECURSIVE LightProductAt(_, _)
LightProductAt(lights, w) ==
    IF lights = <<>> THEN 1
    ELSE lights[Len(lights)].spectrum[w] * LightProductAt(SubSeq(lights, 1, Len(lights) - 1), w)

IsEmissionOnly(f) == f.placement = "EM_PATH"

NotEmissionOnly(f) == ~IsEmissionOnly(f)

WithoutEmissionOnly(self) == [self EXCEPT !.filters = SelectSeq(self.filters, NotEmissionOnly)]

\* C5: with lights, illumination is the product of all light spectra, times
\* the excitation spectrum when excitation is present; without lights it is
\* the excitation spectrum; it is None exactly when there are neither lights
\* nor an excitation; EM_PATH filters do not affect it.
C5_Illumination ==
    call.op = "illumination" =>
        LET exc == excitation(config)
        IN  /\ config.lights # <<>> =>
                /\ ~IsNone(Result)
                /\ \A w \in Wavelengths :
                       Result[1][w] = LightProductAt(config.lights, w)
                                      * (IF IsNone(exc) THEN 1 ELSE exc[1].spectrum[w])
            /\ (config.lights = <<>> /\ ~IsNone(exc)) => Result = Some(exc[1].spectrum)
            /\ IsNone(Result) <=> (config.lights = <<>> /\ IsNone(exc))
            /\ Result = illumination(WithoutEmissionOnly(config))

C5_Witness ==
    /\ call.op = "illumination"
    /\ Len(config.lights) = 2
    /\ config.lights[1].spectrum = Spec2(2, 3)
    /\ config.lights[2].spectrum = Spec2(2, 3)
    /\ Len(config.filters) = 2
    /\ config.filters[1].placement = "EM_PATH"
    /\ config.filters[1].spectrum = Spec2(1, 0)
    /\ config.filters[2].placement = "BS"
    /\ config.filters[2].spectrum = Spec2(1, 0)
    /\ Result = Some(Spec2(0, 9))

HasExcitationContributor(self) ==
    \E i \in 1..Len(self.filters) : self.filters[i].placement \in ExcitationPlacements

\* C6: irradiance and absorption_rate raise ValueError("This Optical Config
\* has no illumination spectrum.") when the configuration has no light and no
\* excitation-contributing filter, and only then.
C6_MissingIllumination ==
    call.op \in {"irradiance", "absorption_rate"} =>
        IF config.lights = <<>> /\ ~HasExcitationContributor(config)
        THEN ret = Raise("ValueError", <<"This Optical Config has no illumination spectrum.">>)
        ELSE ret.ok

C6_Witness ==
    /\ call.op = "absorption_rate"
    /\ config.lights = <<>>
    /\ Len(config.filters) = 2
    /\ ~ret.ok
    /\ ret.error = "ValueError"

RECURSIVE TotalOver(_, _)
TotalOver(s, ws) == IF ws = <<>> THEN 0 ELSE s[Head(ws)] + TotalOver(s, Tail(ws))

\* the sum of a spectrum's intensities
Total(s) == TotalOver(s, WAxis)

\* `irrad` is `illum` divided by the sum of its values: it sums to 1 and its
\* values are in the proportions of those of `illum`
Normalized(illum, irrad) ==
    /\ DataSum(irrad) = Float(1)
    /\ \A w \in Wavelengths :
           NumMul(irrad.data[w], Float(Total(illum))) = Float(illum[w])
    /\ \A v, w \in Wavelengths :
           NumMul(irrad.data[v], Float(illum[w])) = NumMul(irrad.data[w], Float(illum[v]))

C8_AbsorptionRate ==
    (call.op = "absorption_rate" /\ ~IsNone(illumination(config))) =>
        LET irrad == irradiance(config).value[1]
            cross_section == call.arg[1].absorption_cross_section
        IN  /\ ret.ok
            /\ Result.name = "absorption_rate"
            /\ Result.long_name = "Absorption rate"
            /\ Result.units = "photons/s/fluorophore"
            /\ \A w \in Wavelengths :
                   NumMul(Result.data[w], NumMul(h, c))
                       = NumMul(NumMul(irrad.data[w], cross_section.data[w]),
                                Num(w, 1000000000, 0, 0))

C8_Witness ==
    /\ call.op = "absorption_rate"
    /\ call.arg[1].name = "EGFP"
    /\ Len(config.lights) = 1
    /\ config.lights[1].spectrum = Spec2(2, 3)
    /\ config.filters = <<>>
    /\ ret.ok
    /\ Result.data[500] = Num(3, 5000000, -1, -1)

(***************************************************************************)
(* OpticalConfig.from_fpbase.  Text whose characters the code inspects     *)
(* (lower(), "::") is a sequence of one-character strings.                 *)
(***************************************************************************)
\* str.lower() of one character
LowerChar(ch) ==
    CASE ch = "A" -> "a"
      [] ch = "B" -> "b"
      [] ch = "S" -> "s"
      [] OTHER -> ch

lower(str) == [i \in 1..Len(str) |-> LowerChar(str[i])]

\* the positions where "::" starts in str
SepPositions(str) == {i \in 1..(Len(str) - 1) : str[i] = ":" /\ str[i + 1] = ":"}

\* "::" in str
HasSep(str) == SepPositions(str) # {}

\* str.split("::")
RECURSIVE split(_)
split(str) ==
    IF ~HasSep(str) THEN <<str>>
    ELSE LET i == CHOOSE x \in SepPositions(str) : \A y \in SepPositions(str) : x <= y
         IN  <<SubSeq(str, 1, i - 1)>> \o split(SubSeq(str, i + 2, Len(str)))

\* repr(str)
repr(str) == <<"'">> \o str \o <<"'">>

\* sep.join(parts)
RECURSIVE join(_, _)
join(sep, parts) ==
    IF parts = <<>> THEN <<>>
    ELSE IF Len(parts) = 1 THEN parts[1]
    ELSE parts[1] \o sep \o join(sep, Tail(parts))

\* microsim.fpbase.get_microscope: the record of the microscope, or an error
get_microscope(db, microscope_id) ==
    IF \E i \in 1..Len(db) : db[i].id = microscope_id
    THEN Return(db[CHOOSE i \in 1..Len(db) : db[i].id = microscope_id])
    ELSE Raise("LookupError", <<"microscope not found: ">> \o repr(microscope_id))

\* LightSource.from_fpbase
LightSource_from_fpbase(light) == LightSource(light.name, light.spectrum, None)

\* SpectrumFilter.from_fpbase, for the filter at position i of the record
SpectrumFilter_from_fpbase(f, i) ==
    [name |-> f.name, placement |-> f.path, spectrum |-> f.spectrum, oid |-> i]

NotFoundMessage(config_name, microscope_id, opticalConfigs) ==
    <<"Could not find config named ">> \o repr(config_name)
        \o <<" in FPbase microscope ">> \o repr(microscope_id)
        \o <<". Available names: ">>
        \o join(<<",", " ">>, [i \in 1..Len(opticalConfigs) |-> repr(opticalConfigs[i].name)])

LookupCaseSensitive(microscope_id, config_name, opticalConfigs) ==
    LET hits == {i \in 1..Len(opticalConfigs) : opticalConfigs[i].name = config_name}
    IN  IF hits # {}
        THEN LET cfg == opticalConfigs[CHOOSE i \in hits : \A j \in hits : i <= j]
                 lights == IF ~IsNone(cfg.light)
                           THEN <<LightSource_from_fpbase(cfg.light[1])>>
                           ELSE <<>>
             IN  Return(OpticalConfig(cfg.name,
                                      [i \in 1..Len(cfg.filters) |->
                                          SpectrumFilter_from_fpbase(cfg.filters[i], i)],
                                      lights, None))
        ELSE Raise("ValueError", NotFoundMessage(config_name, microscope_id, opticalConfigs))

\* the loop over fpbase_scope.opticalConfigs and the error after it
Lookup(microscope_id, config_name, opticalConfigs) ==
    LET hits == {i \in 1..Len(opticalConfigs) :
                    lower(opticalConfigs[i].name) = lower(config_name)}
    IN  IF hits # {}
        THEN LET cfg == opticalConfigs[CHOOSE i \in hits : \A j \in hits : i <= j]
                 lights == IF ~IsNone(cfg.light)
                           THEN <<LightSource_from_fpbase(cfg.light[1])>>
                           ELSE <<>>
             IN  Return(OpticalConfig(cfg.name,
                                      [i \in 1..Len(cfg.filters) |->
                                          SpectrumFilter_from_fpbase(cfg.filters[i], i)],
                                      lights, None))
        ELSE Raise("ValueError", NotFoundMessage(config_name, microscope_id, opticalConfigs))

FromFpbaseNamed(db, microscope_id, config_name) ==
    LET fpbase_scope == get_microscope(db, microscope_id)
    IN  IF ~fpbase_scope.ok THEN fpbase_scope
        ELSE Lookup(microscope_id, config_name, fpbase_scope.value[1].opticalConfigs)

NeedsSeparatorMessage ==
    <<"If config_name is not provided, microscope_id must be in the form 'scope::config'">>

\* from_fpbase(microscope_id, config_name); config_name is optional
from_fpbase(db, microscope_id, config_name) ==
    IF IsNone(config_name)
    THEN IF ~HasSep(microscope_id)
         THEN Raise("ValueError", NeedsSeparatorMessage)
         ELSE LET parts == split(microscope_id)
              IN  IF Len(parts) # 2
                  THEN Raise("ValueError", <<"too many values to unpack (expected 2)">>)
                  ELSE FromFpbaseNamed(db, parts[1], parts[2])
    ELSE FromFpbaseNamed(db, microscope_id, config_name[1])

(***************************************************************************)
(* The FPbase records the model draws from.                                *)
(***************************************************************************)
FpbaseNames == {<<"a">>, <<"A">>, <<"b">>}

FpbaseLight == [name |-> "lamp", spectrum |-> Spec2(2, 3)]

FpbaseFilter == [name |-> "dichroic", path |-> "BS", spectrum |-> Spec2(1, 0)]

FpbaseConfigs ==
    [name : FpbaseNames, light : {None, Some(FpbaseLight)}, filters : {<<>>, <<FpbaseFilter>>}]

FpbaseConfigLists(max) == UNION {[1..n -> FpbaseConfigs] : n \in 0..max}

MicroscopeIds ==
    {<<"s">>, <<"t">>, <<"s", ":", ":", "A">>, <<"s", ":", ":", "b">>,
     <<"s", ":", "a">>, <<":", ":", ":">>, <<"s", ":", ":", "a", ":", ":", "b">>}

ConfigNames == {None, Some(<<"a">>), Some(<<"A">>), Some(<<"B">>)}

InitFpbase ==
    /\ config = OpticalConfig("", <<>>, <<>>, None)
    /\ address = CHOOSE a \in Addresses : TRUE
    /\ \E cfgs \in FpbaseConfigLists(MaxConfigs) :
           microscopes = <<[id |-> <<"s">>, opticalConfigs |-> cfgs]>>
    /\ call = [op |-> "init", arg |-> <<>>]
    /\ ret = NoResult

FromFpbase ==
    \E microscope_id \in MicroscopeIds, config_name \in ConfigNames :
        LET r == from_fpbase(microscopes, microscope_id, config_name)
        IN  /\ call' = [op |-> "from_fpbase", arg |-> <<microscope_id, config_name>>]
            /\ ret' = r
            /\ config' = IF r.ok THEN r.value[1] ELSE config
            /\ UNCHANGED <<address, microscopes>>

NextFpbase == FromFpbase

SpecFpbase == InitFpbase /\ [][NextFpbase]_vars

(***************************************************************************)
(* Properties of from_fpbase.                                              *)
(***************************************************************************)
SameLetter(x, y) ==
    \/ x = y
    \/ {x, y} \in {{"a", "A"}, {"b", "B"}, {"s", "S"}}

EqualIgnoringCase(x, y) ==
    Len(x) = Len(y) /\ \A i \in 1..Len(x) : SameLetter(x[i], y[i])

\* the text `message` contains `name`
Contains(message, name) ==
    \E i \in 1..(Len(message) - Len(name) + 1) :
        SubSeq(message, i, i + Len(name) - 1) = name

\* the configuration built from record cfg
BuiltFrom(result, cfg) ==
    /\ result.name = cfg.name
    /\ Len(result.filters) = Len(cfg.filters)
    /\ \A k \in 1..Len(cfg.filters) :
           /\ result.filters[k].name = cfg.filters[k].name
           /\ result.filters[k].spectrum = cfg.filters[k].spectrum
           /\ result.filters[k].placement = cfg.filters[k].path
    /\ IF IsNone(cfg.light)
       THEN result.lights = <<>>
       ELSE /\ Len(result.lights) = 1
            /\ result.lights[1].name = cfg.light[1].name
            /\ result.lights[1].spectrum = cfg.light[1].spectrum

\* the outcome of looking `name` up in the microscope `scope`
LookedUp(scope, name, outcome) ==
    /\ (\A m \in 1..Len(microscopes) : microscopes[m].id # scope) => ~outcome.ok
    /\ \A m \in 1..Len(microscopes) :
        microscopes[m].id = scope =>
            LET cfgs == microscopes[m].opticalConfigs
                hits == {i \in 1..Len(cfgs) : EqualIgnoringCase(cfgs[i].name, name)}
            IN  IF hits # {}
                THEN /\ outcome.ok
                     /\ \E i \in hits :
                            /\ \A j \in hits : i <= j
                            /\ BuiltFrom(outcome.value[1], cfgs[i])
                ELSE /\ ~outcome.ok
                     /\ \A i \in 1..Len(cfgs) : Contains(outcome.message, cfgs[i].name)

\* the ways to read str as scope::name
Splits(str) ==
    {<<SubSeq(str, 1, i - 1), SubSeq(str, i + 2, Len(str))>> : i \in SepPositions(str)}

\* C9 as claimed: whenever config_name is omitted and microscope_id contains
\* "::", the id is split into scope and config name and that name is looked
\* up in that scope.
C9_AsClaimed ==
    (call.op = "from_fpbase" /\ IsNone(call.arg[2]) /\ HasSep(call.arg[1])) =>
        \E sp \in Splits(call.arg[1]) : ret = FromFpbaseNamed(microscopes, sp[1], sp[2])

\* C9: from_fpbase returns the first configuration of the microscope whose
\* name equals config_name case-insensitively, built with the record's name,
\* filters and light; when none matches it raises an error naming every
\* available configuration; with config_name omitted it raises an error when
\* microscope_id holds no "::", looks scope and name up when it holds "::"
\* exactly once, and raises ValueError without a lookup when split("::")
\* gives more than two parts.
C9_FromFpbase ==
    call.op = "from_fpbase" =>
        LET microscope_id == call.arg[1]
            config_name == call.arg[2]
        IN  /\ ~IsNone(config_name) => LookedUp(microscope_id, config_name[1], ret)
            /\ (IsNone(config_name) /\ ~HasSep(microscope_id)) =>
                   ~ret.ok /\ ret.error = "ValueError"
            /\ (IsNone(config_name) /\ Cardinality(SepPositions(microscope_id)) = 1) =>
                   \A sp \in Splits(microscope_id) : LookedUp(sp[1], sp[2], ret)
            /\ (IsNone(config_name) /\ Len(split(microscope_id)) > 2) =>
                   /\ ~ret.ok
                   /\ ret.error = "ValueError"
                   /\ ~Contains(ret.message, <<"Could not find config named ">>)

C9_Witness ==
    /\ call.op = "from_fpbase"
    /\ call.arg = <<(<<"s", ":", ":", "A">>), None>>
    /\ Len(microscopes[1].opticalConfigs) = 2
    /\ microscopes[1].opticalConfigs[1].name = <<"a">>
    /\ ~IsNone(microscopes[1].opticalConfigs[1].light)
    /\ microscopes[1].opticalConfigs[2].name = <<"A">>
    /\ ret.ok
    /\ config.name = <<"a">>
    /\ Len(config.lights) = 1

(***************************************************************************)
(* OpticalConfig.__hash__ and OpticalConfig.__eq__.  A frame of the call   *)
(* stack is the file it runs (the components of its path) and the name of  *)
(* its function.  A value is a str or an OpticalConfig at some address.    *)
(* (str values carry no object and the address 0).                         *)
(***************************************************************************)
\* "pandas" in frame.filename
InFilename(word, filename) == \E i \in 1..Len(filename) : filename[i] = word

IsLabelLookup(frame) ==
    InFilename("pandas", frame.filename) /\ frame.function = "get_loc"

\* the frame of OpticalConfig.__eq__ itself
EqFrame ==
    [filename |-> <<"microsim", "schema", "optical_config", "config.py">>,
     function |-> "__eq__"]

\* __hash__ called from `caller` (inspect.stack()[1])
hash_method(self, self_id, caller) ==
    IF IsLabelLookup(caller) THEN StrHash(self.name) ELSE self_id

\* the builtin hash(value), evaluated in a frame `caller`
hash(value, caller) ==
    IF value.type = "str"
    THEN StrHash(value.str)
    ELSE hash_method(value.obj[1], value.id, caller)

\* SimBaseModel.__eq__: another model instance with the same fields
super_eq(self, value) == value.type = "OpticalConfig" /\ value.obj = Some(self)

\* __eq__ called from `caller` (inspect.stack()[1])
eq_method(self, self_id, value, caller) ==
    IF IsLabelLookup(caller)
    THEN StrHash(self.name) = hash(value, EqFrame)
    ELSE super_eq(self, value)

Callers ==
    {[filename |-> <<"pandas", "core", "indexes", "base.py">>, function |-> "get_loc"],
     [filename |-> <<"pandas", "core", "frame.py">>, function |-> "__getitem__"],
     [filename |-> <<"xarray", "core", "indexes.py">>, function |-> "get_loc"],
     [filename |-> <<"app.py">>, function |-> "<module>"]}

EqConfigs ==
    {OpticalConfig(name, fs, <<>>, None) :
        name \in {"FITC", "Cy5"},
        fs \in {<<>>, <<Filter(1, [placement |-> "EX_PATH", spectrum |-> Spec2(1, 0)])>>}}

StrValue(str) == [type |-> "str", str |-> str, obj |-> None, id |-> 0]

ObjValue(obj, id) == [type |-> "OpticalConfig", str |-> "", obj |-> Some(obj), id |-> id]

\* what the configuration at `self_id` can be compared with: a string, the
\* configuration itself, or another configuration at another address
Values(self, self_id) ==
    {StrValue(str) : str \in {"FITC", "Cy5"}}
        \cup {ObjValue(self, self_id)}
        \cup {ObjValue(obj, id) : obj \in EqConfigs, id \in Addresses \ {self_id}}

InitEq ==
    /\ config \in EqConfigs
    /\ address \in Addresses
    /\ microscopes = NoMicroscopes
    /\ call = [op |-> "init", arg |-> <<>>]
    /\ ret = NoResult

Hash ==
    \E caller \in Callers :
        /\ call' = [op |-> "__hash__", arg |-> <<caller>>]
        /\ ret' = Return(hash_method(config, address, caller))
        /\ UNCHANGED <<config, address, microscopes>>

\* a Python bool as the int it is: True is 1, False is 0
PyBool(b) == IF b THEN 1 ELSE 0

Eq ==
    \E caller \in Callers, value \in Values(config, address) :
        /\ call' = [op |-> "__eq__", arg |-> <<caller, value>>]
        /\ ret' = Return(PyBool(eq_method(config, address, value, caller)))
        /\ UNCHANGED <<config, address, microscopes>>

NextEq ==
    \/ Hash
    \/ Eq

SpecEq == InitEq /\ [][NextEq]_vars

(***************************************************************************)
(* Properties of __hash__ and __eq__.                                      *)
(***************************************************************************)
\* C10: called from get_loc in a pandas file, hash(cfg) is hash(cfg.name) and
\* cfg equals the string cfg.name and every configuration of the same name,
\* itself included; called from anywhere else, hash(cfg) is id(cfg) and
\* equality is the default model equality.
C10_CallerContextPolicy ==
    /\ call.op = "__hash__" =>
           Result = (IF IsLabelLookup(call.arg[1]) THEN StrHash(config.name) ELSE address)
    /\ call.op = "__eq__" =>
           LET value == call.arg[2]
           IN  IF IsLabelLookup(call.arg[1])
               THEN /\ (value.type = "str" /\ value.str = config.name) => Result = PyBool(TRUE)
                    /\ (value.type = "OpticalConfig" /\ value.obj[1].name = config.name)
                           => Result = PyBool(TRUE)
               ELSE Result = PyBool(value.type = "OpticalConfig" /\ value.obj = Some(config))

====
